---- MODULE Spec2Model ----
(***************************************************************************)
(* The books router of routes/books.js: five Express handlers over the     *)
(* module-level array `books`.  Each action is one request handled to      *)
(* completion (Node runs a synchronous handler without interleaving).      *)
(***************************************************************************)
EXTENDS Integers, Sequences, FiniteSets, TLC

\* books: the array of routes/books.js; req, res: the request handled last
\* and the response written for it.
VARIABLES books, req, res

vars == <<books, req, res>>

(* ------------------------------ bounds -------------------------------- *)

\* POST is not issued once the array holds MaxBooks records.
MaxBooks == 2

(* --------------------------- request inputs --------------------------- *)

\* The value of a destructured key the body does not carry.
Undefined == "undefined"

\* req.body after body-parser when the request carries no JSON members.
EmptyBody == [k \in {} |-> TRUE]

\* JSON bodies a client sends; a key left out is an omitted member.
Bodies ==
    { EmptyBody,
      [title |-> "B"],
      [author |-> "X", finished |-> TRUE],
      [title |-> "A", author |-> "X", finished |-> FALSE, createdAt |-> 0, id |-> 9] }

\* Values `new Date()` can yield (wall-clock time, in ms since the epoch).
Times == {2}

HexDigits == <<"0", "1", "2", "3", "4", "5", "6", "7", "8", "9",
               "a", "b", "c", "d", "e", "f">>

\* req.params.id: the path segment, a string, as a tuple of characters.
Params ==
    { <<HexDigits[i + 1]>> : i \in 1..(MaxBooks + 1) }
        \cup { <<"0", "x", "2">>, <<"2", "z">>, <<"z">> }

(* ------------------------------ parseInt ------------------------------ *)

NaN == [nan |-> TRUE, val |-> 0]

Num(n) == [nan |-> FALSE, val |-> n]

IsDigit(c, radix) == \E i \in 1..radix : HexDigits[i] = c

DigitVal(c) == (CHOOSE i \in 1..16 : HexDigits[i] = c) - 1

RECURSIVE TrimStart(_)
TrimStart(s) ==
    IF s # <<>> /\ Head(s) = " " THEN TrimStart(Tail(s)) ELSE s

\* Accumulates the longest prefix of radix digits; `seen` tells whether
\* at least one digit was consumed.
RECURSIVE ParseDigits(_, _, _, _)
ParseDigits(s, radix, acc, seen) ==
    IF s # <<>> /\ IsDigit(Head(s), radix)
    THEN ParseDigits(Tail(s), radix, acc * radix + DigitVal(Head(s)), TRUE)
    ELSE IF seen THEN Num(acc) ELSE NaN

\* parseInt(string) called without a radix.
ParseInt(str) ==
    LET s    == TrimStart(str)
        neg  == s # <<>> /\ Head(s) = "-"
        t    == IF s # <<>> /\ Head(s) \in {"-", "+"} THEN Tail(s) ELSE s
        hex  == Len(t) >= 2 /\ t[1] = "0" /\ t[2] \in {"x", "X"}
        u    == IF hex THEN Tail(Tail(t)) ELSE t
        n    == ParseDigits(u, IF hex THEN 16 ELSE 10, 0, FALSE)
    IN  IF n.nan THEN NaN ELSE IF neg THEN Num(0 - n.val) ELSE n

\* book.id === parseInt(req.params.id): NaN is equal to nothing.
\* Variant: >= written for ===.
LooseGreaterEq(id, n) == ~n.nan /\ id >= n.val

StrictEq(id, n) == ~n.nan /\ id = n.val

(* --------------------------- array helpers ---------------------------- *)

\* books.find(...) followed by books.indexOf(book): the position of the
\* first record whose id matches, 0 when find returns undefined.
Find(bs, param) ==
    LET n == ParseInt(param)
    IN  IF \E i \in 1..Len(bs) : StrictEq(bs[i].id, n)
        THEN CHOOSE i \in 1..Len(bs) :
                /\ StrictEq(bs[i].id, n)
                /\ \A j \in 1..(i - 1) : ~StrictEq(bs[j].id, n)
        ELSE 0

\* Array.prototype.splice(start, deleteCount, ...items), positions from 1.
Splice(bs, start, deleteCount, items) ==
    SubSeq(bs, 1, start - 1) \o items \o SubSeq(bs, start + deleteCount, Len(bs))

Has(body, k) == k \in DOMAIN body

(* ------------------------------ handlers ------------------------------ *)

\* Variant: the + 1 left out.
NewIdLength(bs) == Len(bs)

\* id: books.length + 1
NewId(bs) == Len(bs) + 1

\* Variant: finished defaults to true.
NewBookFinishedDefaultsTrue(bs, body, now) ==
    [ id        |-> NewId(bs),
      title     |-> IF Has(body, "title") THEN body.title ELSE Undefined,
      author    |-> IF Has(body, "author") THEN body.author ELSE Undefined,
      finished  |-> IF Has(body, "finished") THEN body.finished ELSE TRUE,
      createdAt |-> now ]

\* The object literal built by POST.
NewBook(bs, body, now) ==
    [ id        |-> NewId(bs),
      title     |-> IF Has(body, "title") THEN body.title ELSE Undefined,
      author    |-> IF Has(body, "author") THEN body.author ELSE Undefined,
      finished  |-> IF Has(body, "finished") THEN body.finished ELSE FALSE,
      createdAt |-> now ]

\* Variant: omitted members are not taken from the existing book.
UpdatedNoDefaults(book, body) ==
    [ id        |-> book.id,
      title     |-> IF Has(body, "title") THEN body.title ELSE Undefined,
      author    |-> IF Has(body, "author") THEN body.author ELSE Undefined,
      finished  |-> IF Has(body, "finished") THEN body.finished ELSE FALSE,
      createdAt |-> book.createdAt ]

\* Variant: createdAt merged from the body like the other members.
UpdatedCreatedAtFromBody(book, body) ==
    [ id        |-> book.id,
      title     |-> IF Has(body, "title") THEN body.title ELSE book.title,
      author    |-> IF Has(body, "author") THEN body.author ELSE book.author,
      finished  |-> IF Has(body, "finished") THEN body.finished ELSE book.finished,
      createdAt |-> IF Has(body, "createdAt") THEN body.createdAt ELSE book.createdAt ]

\* The object literal `updated` built by PUT.
Updated(book, body) ==
    [ id        |-> book.id,
      title     |-> IF Has(body, "title") THEN body.title ELSE book.title,
      author    |-> IF Has(body, "author") THEN body.author ELSE book.author,
      finished  |-> IF Has(body, "finished") THEN body.finished ELSE book.finished,
      createdAt |-> book.createdAt ]

\* Variant: splice with deleteCount 0.
ReplaceInserts(bs, i, updated) == Splice(bs, i, 0, <<updated>>)

\* books.splice(books.indexOf(book), 1, updated)
Replace(bs, i, updated) == Splice(bs, i, 1, <<updated>>)

\* Variant: splice without a deleteCount.
RemoveToEnd(bs, i) == Splice(bs, i, Len(bs), <<>>)

\* books.splice(books.indexOf(book), 1)
Remove(bs, i) == Splice(bs, i, 1, <<>>)

(* ------------------------------ responses ----------------------------- *)

\* Date.prototype.toJSON: the ISO-8601 rendering of a time in Times.
ToISOString(t) == <<"1970-01-01T00:00:00.00", HexDigits[t + 1], "Z">>

\* JSON.stringify of a book: members whose value is undefined are left
\* out and the Date is rendered as a string.
ToJSON(b) ==
    LET keys == { k \in DOMAIN b : ~(k \in {"title", "author"} /\ b[k] = Undefined) }
    IN  [ k \in keys |-> IF k = "createdAt" THEN ToISOString(b[k]) ELSE b[k] ]

\* res.status(code).json(value)
Json(code, value) == [status |-> code, body |-> value]

\* res.sendStatus(code): the status with its reason phrase as the body.
SendStatus(code) ==
    [status |-> code, body |-> IF code = 404 THEN "Not Found" ELSE "No Content"]

Request(method, route, param, body) ==
    [method |-> method, route |-> route, id |-> param, body |-> body]

(* ------------------------------- state -------------------------------- *)

\* The array exported by utils/data: one seed book with id 1.
Seed ==
    << [id |-> 1, title |-> "A", author |-> "X", finished |-> FALSE, createdAt |-> 1] >>

Init ==
    /\ books = Seed
    /\ req = Request("NONE", "", <<>>, EmptyBody)
    /\ res = [status |-> 0, body |-> ""]

\* router.get('/')
GetBooks ==
    /\ req' = Request("GET", "/", <<>>, EmptyBody)
    /\ res' = Json(200, [i \in 1..Len(books) |-> ToJSON(books[i])])
    /\ UNCHANGED books

\* router.get('/:id')
GetBook(param) ==
    LET i == Find(books, param)
    IN  /\ req' = Request("GET", "/:id", param, EmptyBody)
        /\ res' = IF i # 0 THEN Json(200, ToJSON(books[i])) ELSE SendStatus(404)
        /\ UNCHANGED books

\* router.post('/')
PostBook(body, now) ==
    LET book == NewBook(books, body, now)
    IN  /\ Len(books) < MaxBooks
        /\ req' = Request("POST", "/", <<>>, body)
        /\ books' = Append(books, book)
        /\ res' = Json(201, ToJSON(book))

\* router.put('/:id')
PutBook(param, body) ==
    LET i == Find(books, param)
    IN  /\ req' = Request("PUT", "/:id", param, body)
        /\ books' = IF i # 0 THEN Replace(books, i, Updated(books[i], body)) ELSE books
        /\ res' = IF i # 0 THEN SendStatus(204) ELSE SendStatus(404)

\* router.delete('/:id')
DeleteBook(param) ==
    LET i == Find(books, param)
    IN  /\ req' = Request("DELETE", "/:id", param, EmptyBody)
        /\ books' = IF i # 0 THEN Remove(books, i) ELSE books
        /\ res' = IF i # 0 THEN SendStatus(204) ELSE SendStatus(404)

Next ==
    \/ GetBooks
    \/ \E param \in Params : GetBook(param)
    \/ \E body \in Bodies, now \in Times : PostBook(body, now)
    \/ \E param \in Params, body \in Bodies : PutBook(param, body)
    \/ \E param \in Params : DeleteBook(param)

Spec == Init /\ [][Next]_vars

(* ------------------------- vocabulary of the claims ------------------- *)

\* The path segment a client writes for the integer id n (0 <= n <= 9).
PathOf(n) == <<HexDigits[n + 1]>>

\* The integers a request can name that way.
IdRange == 1..(MaxBooks + 1)

Carries(bs, n) == \E i \in 1..Len(bs) : bs[i].id = n

\* Position of the first record in Store order whose id is n.
FirstWithId(bs, n) ==
    CHOOSE i \in 1..Len(bs) : bs[i].id = n /\ \A j \in 1..(i - 1) : bs[j].id # n

\* bs with the record at position m taken out.
Without(bs, m) == [i \in 1..(Len(bs) - 1) |-> IF i < m THEN bs[i] ELSE bs[i + 1]]

\* The step handles METHOD /books/{n}.
OnId(method, n) ==
    req'.method = method /\ req'.route = "/:id" /\ req'.id = PathOf(n)

(* -------------------------------- C1 ---------------------------------- *)

\* C1: for every integer id that no record in the Store carries, GET, PUT
\* (with any body) and DELETE on /books/{id} respond with status 404.
C1_AbsentIdIs404 ==
    [][ \A n \in IdRange, method \in {"GET", "PUT", "DELETE"} :
            (OnId(method, n) /\ ~Carries(books, n)) => res'.status = 404 ]_vars

C1_Witness ==
    /\ req.method = "PUT" /\ req.body # EmptyBody
    /\ \E n \in IdRange : req.id = PathOf(n) /\ ~Carries(books, n)
    /\ res.status = 404
    /\ Len(books) = 2

(* -------------------------------- C2 ---------------------------------- *)

\* C2: DELETE /books/{id} on an id that some record carries returns 204 and
\* a GET /books/{id} issued immediately afterwards returns 404.
C2_DeleteThenGetIs404 ==
    [][ \A n \in IdRange :
            /\ (OnId("DELETE", n) /\ Carries(books, n)) => res'.status = 204
            /\ ( /\ req.method = "DELETE" /\ req.id = PathOf(n) /\ res.status = 204
                 /\ OnId("GET", n) )
               => res'.status = 404 ]_vars

(* -------------------------------- C3 ---------------------------------- *)

\* C3: a POST /books followed immediately by GET /books/{id} with the id of
\* the POST response returns 200 and a Book equal, member by member, to the
\* POST response.
C3_PostThenGetRoundTrip ==
    [][ (req.method = "POST" /\ OnId("GET", res.body.id))
            => (res'.status = 200 /\ res'.body = res.body) ]_vars

(* -------------------------------- C4 ---------------------------------- *)

\* C4: no two records in the Store carry the same id.
C4_IdsUnique ==
    \A i, j \in 1..Len(books) : i # j => books[i].id # books[j].id

(* -------------------------------- C5 ---------------------------------- *)

CreatedAts(bs) == [i \in 1..Len(bs) |-> bs[i].createdAt]

\* C7: createdAt is set once by the POST that creates the record and never
\* changes while the record stays in the Store, whatever the requests
\* (PUT bodies carrying a createdAt member included).
C7_CreatedAtImmutable ==
    [][ /\ req'.method \in {"GET", "PUT"} => CreatedAts(books') = CreatedAts(books)
        /\ req'.method = "POST" =>
                /\ SubSeq(CreatedAts(books'), 1, Len(books)) = CreatedAts(books)
                /\ ToISOString(books'[Len(books')].createdAt) = res'.body.createdAt
        /\ req'.method = "DELETE" =>
                \/ CreatedAts(books') = CreatedAts(books)
                \/ \E m \in 1..Len(books) :
                        CreatedAts(books') = Without(CreatedAts(books), m) ]_vars

C7_Witness ==
    /\ req.method = "PUT" /\ res.status = 204
    /\ "createdAt" \in DOMAIN req.body
    /\ \E i \in 1..Len(books) :
            /\ req.id = PathOf(books[i].id)
            /\ books[i].title = req.body.title
            /\ books[i].createdAt # req.body.createdAt

(* -------------------------------- C8 ---------------------------------- *)

\* C8: POST /books with finished omitted yields finished = false in the
\* response and in the stored record; a supplied finished is stored as given.
C8_PostFinishedDefault ==
    [][ req'.method = "POST" =>
            LET want == IF "finished" \in DOMAIN req'.body
                        THEN req'.body.finished ELSE FALSE
            IN  /\ books'[Len(books')].finished = want
                /\ res'.body.finished = want ]_vars

C8_Witness ==
    /\ req.method = "POST" /\ "finished" \notin DOMAIN req.body
    /\ res.status = 201 /\ res.body.finished = FALSE
    /\ books[Len(books)].finished = FALSE

(* -------------------------------- C9 ---------------------------------- *)

\* C9: a successful PUT /books/{id} replaces in place: it acts on the first
\* record in Store order whose id is the given id, the Store's length is
\* unchanged, that position keeps its id, and every other position is
\* unchanged.
C9_PutReplacesInPlace ==
    [][ \A n \in IdRange :
            (OnId("PUT", n) /\ res'.status = 204) =>
                /\ Carries(books, n)
                /\ Len(books') = Len(books)
                /\ books'[FirstWithId(books, n)].id = n
                /\ \A i \in 1..Len(books) :
                        i # FirstWithId(books, n) => books'[i] = books[i] ]_vars

C9_Witness ==
    /\ req.method = "PUT" /\ res.status = 204
    /\ Len(books) = 2 /\ books[1].id = books[2].id
    /\ req.id = PathOf(books[1].id)
    /\ "title" \in DOMAIN req.body
    /\ books[1].title = req.body.title /\ books[2].title # req.body.title

(* -------------------------------- C10 --------------------------------- *)

====
